---- MODULE Spec2Model ----
(***************************************************************************)
(* kubeyaml: update-image / update-annotations over a stream of YAML       *)
(* documents (src/kubeyaml.py).                                            *)
(*                                                                         *)
(* Python strings are sequences of one-character strings, so that split,   *)
(* join, startswith, lower and the registry regular expression are         *)
(* computed character by character.  A YAML value is a tagged node: a      *)
(* string, a mapping (a function from key strings to nodes) or a list.     *)
(* The order of the keys of a mapping is not modelled: no branch of the    *)
(* program depends on it.                                                  *)
(***************************************************************************)
EXTENDS Integers, Sequences, FiniteSets, TLC

VARIABLES args, docs, cur, found, out, pc, set_path_calls, ref, formatted

vars == <<args, docs, cur, found, out, pc, set_path_calls, ref, formatted>>

(***************************************************************************)
(* Bounds of the model.                                                    *)
(***************************************************************************)
MaxDocs == 2
MaxNotes == 2
MaxRepoSegments == 2

(***************************************************************************)
(* Program constants and the literal keys the program subscripts with.     *)
(***************************************************************************)
FHR_CONTAINER == <<"c", "h", "a", "r", "t", "-", "i", "m", "a", "g", "e">>
REGISTRY_ANNOTATION == <<"r", "e", "g", "i", "s", "t", "r", "y", ".", "f", "l", "u", "x", ".", "w", "e", "a", "v", "e", ".", "w", "o", "r", "k", "s", "/">>
REPOSITORY_ANNOTATION == <<"r", "e", "p", "o", "s", "i", "t", "o", "r", "y", ".", "f", "l", "u", "x", ".", "w", "e", "a", "v", "e", ".", "w", "o", "r", "k", "s", "/">>
TAG_ANNOTATION == <<"t", "a", "g", ".", "f", "l", "u", "x", ".", "w", "e", "a", "v", "e", ".", "w", "o", "r", "k", "s", "/">>
K_kind == <<"k", "i", "n", "d">>
K_metadata == <<"m", "e", "t", "a", "d", "a", "t", "a">>
K_namespace == <<"n", "a", "m", "e", "s", "p", "a", "c", "e">>
K_name == <<"n", "a", "m", "e">>
K_annotations == <<"a", "n", "n", "o", "t", "a", "t", "i", "o", "n", "s">>
K_spec == <<"s", "p", "e", "c">>
K_template == <<"t", "e", "m", "p", "l", "a", "t", "e">>
K_jobTemplate == <<"j", "o", "b", "T", "e", "m", "p", "l", "a", "t", "e">>
K_containers == <<"c", "o", "n", "t", "a", "i", "n", "e", "r", "s">>
K_initContainers == <<"i", "n", "i", "t", "C", "o", "n", "t", "a", "i", "n", "e", "r", "s">>
K_items == <<"i", "t", "e", "m", "s">>
K_image == <<"i", "m", "a", "g", "e">>
K_values == <<"v", "a", "l", "u", "e", "s">>
K_repository == <<"r", "e", "p", "o", "s", "i", "t", "o", "r", "y">>
K_registry == <<"r", "e", "g", "i", "s", "t", "r", "y">>
K_tag == <<"t", "a", "g">>
S_default == <<"d", "e", "f", "a", "u", "l", "t">>
S_CronJob == <<"C", "r", "o", "n", "J", "o", "b">>
S_FluxHelmRelease == <<"F", "l", "u", "x", "H", "e", "l", "m", "R", "e", "l", "e", "a", "s", "e">>
S_HelmRelease == <<"H", "e", "l", "m", "R", "e", "l", "e", "a", "s", "e">>
S_List == <<"L", "i", "s", "t">>
S_localhost == <<"l", "o", "c", "a", "l", "h", "o", "s", "t">>

(***************************************************************************)
(* Python str operations.                                                  *)
(***************************************************************************)
UpperCase == <<"A", "B", "C", "D", "E", "F", "G", "H", "I", "J", "K", "L", "M", "N", "O", "P", "Q", "R", "S", "T", "U", "V", "W", "X", "Y", "Z">>
LowerCase == <<"a", "b", "c", "d", "e", "f", "g", "h", "i", "j", "k", "l", "m", "n", "o", "p", "q", "r", "s", "t", "u", "v", "w", "x", "y", "z">>
Digits == {"0", "1", "2", "3", "4", "5", "6", "7", "8", "9"}
Range(q) == {q[i] : i \in DOMAIN q}

\* str.lower()
lower(s) ==
  [i \in DOMAIN s |->
     IF \E j \in DOMAIN UpperCase : UpperCase[j] = s[i]
     THEN LowerCase[CHOOSE j \in DOMAIN UpperCase : UpperCase[j] = s[i]]
     ELSE s[i]]

\* str.startswith(p)
startswith(s, p) == Len(p) <= Len(s) /\ SubSeq(s, 1, Len(p)) = p

\* str.endswith(p)
endswith(s, p) == Len(p) <= Len(s) /\ SubSeq(s, Len(s) - Len(p) + 1, Len(s)) = p

\* k in d, both str
contains(d, k) ==
  \E i \in 0..(Len(d) - Len(k)) : SubSeq(d, i + 1, i + Len(k)) = k

\* str.split(sep) for a one-character separator: one piece more than there
\* are separators, empty pieces kept.
RECURSIVE split(_, _)
split(s, sep) ==
  IF \E i \in DOMAIN s : s[i] = sep
  THEN LET i == CHOOSE i \in DOMAIN s : s[i] = sep /\ \A j \in 1..(i - 1) : s[j] # sep
       IN <<SubSeq(s, 1, i - 1)>> \o split(SubSeq(s, i + 1, Len(s)), sep)
  ELSE <<s>>

\* sep.join(parts)
RECURSIVE join(_, _)
join(parts, sep) ==
  IF parts = <<>> THEN <<>>
  ELSE IF Len(parts) = 1 THEN parts[1]
  ELSE parts[1] \o <<sep>> \o join(Tail(parts), sep)

\* filter(None, parts): the non-empty strings of parts, in order
filter_none(parts) == SelectSeq(parts, LAMBDA p : p # <<>>)

(***************************************************************************)
(* YAML values as loaded by the codec.                                     *)
(***************************************************************************)
EmptyMap == [k \in {} |-> TRUE]
Str(s) == [t |-> "str", s |-> s, m |-> EmptyMap, l |-> <<>>]
Map(f) == [t |-> "map", s |-> <<>>, m |-> f, l |-> <<>>]
List(q) == [t |-> "list", s |-> <<>>, m |-> EmptyMap, l |-> q]
None == [t |-> "none", s |-> <<>>, m |-> EmptyMap, l |-> <<>>]

IsMapping(n) == n.t = "map"
IsStr(n) == n.t = "str"
\* k in d, d a mapping
Has(d, k) == IsMapping(d) /\ k \in DOMAIN d.m
\* d[k] = v on a mapping
Put(d, k, v) == Map([x \in DOMAIN d.m \cup {k} |-> IF x = k THEN v ELSE d.m[x]])
\* del d[k] on a mapping
Del(d, k) == Map([x \in DOMAIN d.m \ {k} |-> d.m[x]])
\* '%s' % v: the string itself, or the text Python prints for a mapping or a
\* list, of which the model only keeps that it is no image reference.
Repr == <<"{", "}">>
format_s(n) == IF IsStr(n) THEN n.s ELSE Repr

(***************************************************************************)
(* Outcomes of a computation that may raise.                               *)
(***************************************************************************)
Ok(v) == [exc |-> "none", val |-> v]
\* F applied to the value v: v is computed once and named by F's parameter
Bind(v, F(_)) == F(v)
Raise(e) == [exc |-> e, val |-> None]
\* d[k]: KeyError on a mapping without k, TypeError on a str or a list
Subscript(d, k) ==
  IF IsMapping(d)
  THEN IF k \in DOMAIN d.m THEN Ok(d.m[k]) ELSE Raise("KeyError")
  ELSE Raise("TypeError")
\* d[k1][k2]...[kn]
RECURSIVE Walk(_, _)
Walk(d, keys) ==
  IF keys = <<>> THEN Ok(d)
  ELSE LET r == Subscript(d, Head(keys))
       IN IF r.exc # "none" THEN r ELSE Walk(r.val, Tail(keys))
\* the mapping d with the value at d[k1]...[kn] replaced by v (the path exists)
RECURSIVE Assign(_, _, _)
Assign(d, keys, v) ==
  IF keys = <<>> THEN v
  ELSE Put(d, Head(keys), Assign(d.m[Head(keys)], Tail(keys), v))

(***************************************************************************)
(* Locating a manifest (manifests, match_manifest).                        *)
(***************************************************************************)
\* The manifests of a document, as the generator yields them: doc['kind']
\* and doc['items'] raise KeyError when the key is missing.
manifests(doc) ==
  LET kind == Subscript(doc, K_kind)
  IN IF kind.exc # "none" THEN [exc |-> kind.exc, ms |-> <<>>, list |-> FALSE]
     ELSE IF endswith(kind.val.s, S_List)
          THEN LET items == Subscript(doc, K_items)
               IN IF items.exc # "none"
                  THEN [exc |-> items.exc, ms |-> <<>>, list |-> TRUE]
                  ELSE [exc |-> "none", ms |-> items.val.l, list |-> TRUE]
          ELSE [exc |-> "none", ms |-> <<doc>>, list |-> FALSE]

\* dict.get(k, default) on a mapping
get_default(d, k, default) == IF k \in DOMAIN d.m THEN d.m[k] ELSE default

\* Every KeyError of the three lookups is caught and answers False.
match_manifest(spec, manifest) ==
  IF ~Has(manifest, K_kind) THEN FALSE
  ELSE IF lower(manifest.m[K_kind].s) # lower(spec.kind) THEN FALSE
  ELSE IF ~Has(manifest, K_metadata) THEN FALSE
  ELSE IF get_default(manifest.m[K_metadata], K_namespace, Str(S_default)) # Str(spec.namespace) THEN FALSE
  ELSE IF ~Has(manifest.m[K_metadata], K_name) THEN FALSE
  ELSE IF manifest.m[K_metadata].m[K_name] # Str(spec.name) THEN FALSE
  ELSE TRUE

(***************************************************************************)
(* Image references (parse_ref, and the composition get_image performs).   *)
(***************************************************************************)
AlphaNum == Range(UpperCase) \cup Range(LowerCase) \cup Digits

\* ([a-zA-Z0-9]|[a-zA-Z0-9][a-zA-Z0-9-]*[a-zA-Z0-9])
domainComponent(s) ==
  /\ s # <<>>
  /\ s[1] \in AlphaNum
  /\ s[Len(s)] \in AlphaNum
  /\ \A i \in DOMAIN s : s[i] \in AlphaNum \cup {"-"}

\* re.fullmatch('(localhost|(C([.]C)+))(:[0-9]+)?', s).  Neither a host nor a
\* port holds a colon and no component holds a dot, so the pieces are those
\* of the splits.
fullmatch_domain(s) ==
  LET hp == split(s, ":")
      labels == split(hp[1], ".")
  IN /\ Len(hp) \in {1, 2}
     /\ Len(hp) = 2 => (hp[2] # <<>> /\ \A i \in DOMAIN hp[2] : hp[2][i] \in Digits)
     /\ \/ hp[1] = S_localhost
        \/ (Len(labels) >= 2 /\ \A i \in DOMAIN labels : domainComponent(labels[i]))

\* The registry and the rest of the reference, from the '/' segments.
\* A variant of parse_ref_segments that, of three or more '/' segments, keeps
\* only the last one as the image: the path in between is lost.
parse_ref_segments_last(newimage) ==
  LET segments == split(newimage, "/")
  IN IF Len(segments) = 1 THEN [reg |-> <<>>, im |-> newimage]
     ELSE IF Len(segments) = 2
          THEN IF fullmatch_domain(segments[1])
               THEN [reg |-> segments[1], im |-> segments[2]]
               ELSE [reg |-> <<>>, im |-> newimage]
          ELSE [reg |-> segments[1], im |-> segments[Len(segments)]]

parse_ref_segments(newimage) ==
  LET segments == split(newimage, "/")
  IN IF Len(segments) = 1 THEN [reg |-> <<>>, im |-> newimage]
     ELSE IF Len(segments) = 2
          THEN IF fullmatch_domain(segments[1])
               THEN [reg |-> segments[1], im |-> segments[2]]
               ELSE [reg |-> <<>>, im |-> newimage]
          ELSE [reg |-> segments[1], im |-> join(Tail(segments), "/")]

\* The repository and the tag, from the ':' pieces of the rest.
parse_ref_tag(reg, im) ==
  LET segments == split(im, ":")
  IN IF Len(segments) = 2 THEN [reg |-> reg, im |-> segments[1], tag |-> segments[2]]
     ELSE IF Len(segments) = 3
          THEN [reg |-> reg, im |-> join(SubSeq(segments, 1, 2), ":"), tag |-> segments[3]]
          ELSE [reg |-> reg, im |-> im, tag |-> <<>>]

parse_ref(newimage) ==
  Bind(parse_ref_segments(newimage), LAMBDA a : parse_ref_tag(a.reg, a.im))

\* get_image's composition: the registry and '/' go in front when the registry
\* is not '', ':' and the tag behind when the tag is not ''.
compose_image(reg, image, tag) ==
  LET withreg == IF reg # <<>> THEN reg \o <<"/">> \o image ELSE image
  IN IF tag # <<>> THEN withreg \o <<":">> \o tag ELSE withreg

(***************************************************************************)
(* Resolving the containers of a manifest.                                 *)
(***************************************************************************)
IsHelm(manifest) == manifest.m[K_kind].s \in {S_FluxHelmRelease, S_HelmRelease}

\* The keys the pod spec is reached through.
podspec_keys(manifest) ==
  IF manifest.m[K_kind].s = S_CronJob
  THEN <<K_spec, K_jobTemplate, K_spec, K_template, K_spec>>
  ELSE <<K_spec, K_template, K_spec>>

podspec(manifest) == Walk(manifest, podspec_keys(manifest))

\* A container as the resolver lists it for a Helm release.
Entry(name, image) == Map((K_name :> Str(name)) @@ (K_image :> image))

\* The keys of a mapping in one fixed order.
RECURSIVE SeqOf(_)
SeqOf(S) ==
  IF S = {} THEN <<>>
  ELSE LET x == CHOOSE x \in S : TRUE IN <<x>> \o SeqOf(S \ {x})

\* The keys of values whose value is a mapping.
mappings(values) == SeqOf({k \in DOMAIN values.m : IsMapping(values.m[k])})

\* name -> {registry?, repository?, tag?} -> dot path, from the annotations.
\* A missing metadata or annotations key is the caught KeyError.
container_mappings_from_annotations(manifest) ==
  LET r == Walk(manifest, <<K_metadata, K_annotations>>)
      annotations == IF r.exc = "none" THEN r.val.m ELSE EmptyMap
      Prefix(field) ==
        IF field = K_registry THEN REGISTRY_ANNOTATION
        ELSE IF field = K_repository THEN REPOSITORY_ANNOTATION
        ELSE TAG_ANNOTATION
      Fields == {K_registry, K_repository, K_tag}
      Suffix(k, field) == SubSeq(k, Len(Prefix(field)) + 1, Len(k))
      names == {Suffix(k, f) : <<k, f>> \in
                  {kf \in (DOMAIN annotations) \X Fields : startswith(kf[1], Prefix(kf[2]))}}
      FieldsOf(name) == {f \in Fields : (Prefix(f) \o name) \in DOMAIN annotations}
  IN Map([name \in names |->
            Map([f \in FieldsOf(name) |-> annotations[Prefix(f) \o name]])])

\* get_path: a missing key answers None; subscripting a str raises TypeError,
\* which is not caught.
RECURSIVE get_path(_, _)
get_path(d, path) ==
  IF "." \in Range(path)
  THEN LET i == CHOOSE i \in DOMAIN path : path[i] = "." /\ \A j \in 1..(i - 1) : path[j] # "."
           key == SubSeq(path, 1, i - 1)
           rest == SubSeq(path, i + 1, Len(path))
           r == Subscript(d, key)
       IN IF r.exc = "KeyError" THEN Ok(None)
          ELSE IF r.exc # "none" THEN r
          ELSE get_path(r.val, rest)
  ELSE LET r == Subscript(d, path)
       IN IF r.exc = "KeyError" THEN Ok(None) ELSE r

\* The image of a mapping that holds 'image'.
get_image(values) ==
  LET image0 == values.m[K_image]
      sub == IsMapping(image0) /\ Has(image0, K_repository)
      vals == IF sub THEN image0 ELSE values
      image1 == IF sub THEN image0.m[K_repository] ELSE image0
      image2 == IF Has(vals, K_registry) /\ vals.m[K_registry] # Str(<<>>)
                THEN Str(format_s(vals.m[K_registry]) \o <<"/">> \o format_s(image1))
                ELSE image1
  IN IF Has(vals, K_tag) /\ vals.m[K_tag] # Str(<<>>)
     THEN Str(format_s(image2) \o <<":">> \o format_s(vals.m[K_tag]))
     ELSE image2

\* The image an annotation mapping resolves to, or None.  The registry path
\* is not read.
get_image_for_mapping(values, mapping) ==
  IF ~Has(mapping, K_repository) THEN Ok(None)
  ELSE LET repository == get_path(values, mapping.m[K_repository].s)
       IN IF repository.exc # "none" THEN repository
          ELSE IF ~IsStr(repository.val) \/ repository.val = Str(<<>>) THEN Ok(None)
          ELSE IF Has(mapping, K_tag)
               THEN LET tag == get_path(values, mapping.m[K_tag].s)
                    IN IF tag.exc # "none" THEN tag
                       ELSE IF ~IsStr(tag.val) \/ tag.val = Str(<<>>) THEN Ok(None)
                       ELSE Ok(Str(repository.val.s \o <<":">> \o tag.val.s))
               ELSE Ok(repository.val)

\* replace(d, value): the first entry of that name is replaced, else appended
replace(d, value) ==
  IF \E i \in DOMAIN d : d[i].m[K_name] = value.m[K_name]
  THEN LET i == CHOOSE i \in DOMAIN d :
                  /\ d[i].m[K_name] = value.m[K_name]
                  /\ \A j \in 1..(i - 1) : d[j].m[K_name] # value.m[K_name]
       IN [d EXCEPT ![i] = value]
  ELSE Append(d, value)

\* The third tier: the annotation mappings names[i..], added to containers.
RECURSIVE annotation_tier(_, _, _, _, _)
annotation_tier(containers, values, cm, names, i) ==
  IF i > Len(names) THEN [exc |-> "none", val |-> containers]
  ELSE Bind(get_image_for_mapping(values, cm.m[names[i]]), LAMBDA image :
         IF image.exc # "none" THEN [exc |-> image.exc, val |-> containers]
         ELSE IF image.val = None
              THEN annotation_tier(containers, values, cm, names, i + 1)
              ELSE annotation_tier(replace(containers, Entry(names[i], image.val)),
                                   values, cm, names, i + 1))

\* The first tier: the 'image' of values, under the proclaimed name.
chart_image_tier(values) ==
  IF Has(values, K_image) THEN <<Entry(FHR_CONTAINER, get_image(values))>> ELSE <<>>

\* The second tier: the mappings of values holding 'image', named for their key.
nested_tier(values) ==
  Bind(SelectSeq(mappings(values), LAMBDA k : Has(values.m[k], K_image)), LAMBDA nested :
    [i \in DOMAIN nested |-> Entry(nested[i], get_image(values.m[nested[i]]))])

fluxhelmrelease_containers(manifest) ==
  Bind(Walk(manifest, <<K_spec, K_values>>), LAMBDA v :
    IF v.exc # "none" THEN [exc |-> v.exc, val |-> <<>>]
    ELSE Bind(container_mappings_from_annotations(manifest), LAMBDA cm :
           annotation_tier(chart_image_tier(v.val) \o nested_tier(v.val),
                           v.val, cm, SeqOf(DOMAIN cm.m), 1)))

\* dict.get(k, []) of the pod spec
get_list(spec, k) == IF k \in DOMAIN spec.m THEN spec.m[k].l ELSE <<>>

containers(manifest) ==
  IF IsHelm(manifest) THEN fluxhelmrelease_containers(manifest)
  ELSE Bind(podspec(manifest), LAMBDA spec :
         IF spec.exc # "none" THEN [exc |-> spec.exc, val |-> <<>>]
         ELSE [exc |-> "none",
               val |-> get_list(spec.val, K_containers) \o get_list(spec.val, K_initContainers)])

\* The index of the first container named name at or after i, 0 for None.
RECURSIVE first_named(_, _, _)
first_named(cs, name, i) ==
  IF i > Len(cs) THEN [exc |-> "none", c |-> 0]
  ELSE LET n == Subscript(cs[i], K_name)
       IN IF n.exc # "none" THEN [exc |-> n.exc, c |-> 0]
          ELSE IF n.val = Str(name) THEN [exc |-> "none", c |-> i]
          ELSE first_named(cs, name, i + 1)

\* c is the index of the found container in containers(manifest), 0 for None
find_container(spec, manifest) ==
  IF ~match_manifest(spec, manifest) THEN [exc |-> "none", c |-> 0]
  ELSE Bind(containers(manifest), LAMBDA cs :
         IF cs.exc # "none" THEN [exc |-> cs.exc, c |-> 0]
         ELSE first_named(cs.val, spec.container, 1))

(***************************************************************************)
(* Writing the new image back.                                             *)
(***************************************************************************)
\* set_path on the split keys: the outcome, the returned bool and d afterwards.
RECURSIVE set_path_keys(_, _, _)
set_path_keys(d, keys, value) ==
  IF Len(keys) > 1
  THEN \* for k in keys[:-1]: if k not in d: return False; d = d[k]
       IF IsMapping(d)
       THEN IF Head(keys) \notin DOMAIN d.m
            THEN [exc |-> "none", ret |-> FALSE, d |-> d]
            ELSE Bind(set_path_keys(d.m[Head(keys)], Tail(keys), value), LAMBDA r :
                   [exc |-> r.exc, ret |-> r.ret, d |-> Put(d, Head(keys), r.d)])
       ELSE IF IsStr(d) /\ contains(d.s, Head(keys))
            THEN [exc |-> "TypeError", ret |-> FALSE, d |-> d]
            ELSE [exc |-> "none", ret |-> FALSE, d |-> d]
  ELSE \* if not isinstance(d[keys[-1]], str): return False
       LET r == Subscript(d, keys[1])
       IN IF r.exc # "none" THEN [exc |-> r.exc, ret |-> FALSE, d |-> d]
          ELSE IF ~IsStr(r.val) THEN [exc |-> "none", ret |-> FALSE, d |-> d]
          ELSE [exc |-> "none", ret |-> TRUE, d |-> Put(d, keys[1], Str(value))]

set_path(d, path, value) == set_path_keys(d, split(path, "."), value)

\* The mapping set_image writes to, with the three fields written as the
\* sibling keys decide.
set_image_fields(values, imageKey, newimage) ==
  Bind(parse_ref(newimage), LAMBDA r :
    IF Has(values, K_registry) /\ Has(values, K_tag)
    THEN Put(Put(Put(values, K_registry, Str(r.reg)), imageKey, Str(r.im)), K_tag, Str(r.tag))
    ELSE IF Has(values, K_registry)
         THEN Put(Put(values, K_registry, Str(r.reg)),
                  imageKey, Str(join(filter_none(<<r.im, r.tag>>), ":")))
         ELSE IF Has(values, K_tag)
              THEN Put(Put(values, imageKey, Str(join(filter_none(<<r.reg, r.im>>), "/"))),
                       K_tag, Str(r.tag))
              ELSE Put(values, imageKey, Str(newimage)))

\* set_image: values afterwards (values holds 'image')
set_image(values, newimage) ==
  LET image == values.m[K_image]
  IN IF IsMapping(image) /\ Has(image, K_repository)
     THEN Put(values, K_image, set_image_fields(image, K_repository, newimage))
     ELSE set_image_fields(values, K_image, newimage)

\* The set_path calls of a list of (path, value), in order, up to the first
\* that raises: the outcome, values afterwards, and the calls made.
RECURSIVE set_paths(_, _, _)
set_paths(values, todo, calls) ==
  IF todo = <<>> THEN [exc |-> "none", values |-> values, calls |-> calls]
  ELSE Bind(set_path(values, todo[1].path, todo[1].value), LAMBDA r :
         Bind([d |-> values, path |-> todo[1].path, value |-> todo[1].value,
               exc |-> r.exc, ret |-> r.ret, after |-> r.d], LAMBDA call :
           IF r.exc # "none"
           THEN [exc |-> r.exc, values |-> values, calls |-> Append(calls, call)]
           ELSE set_paths(r.d, Tail(todo), Append(calls, call))))

\* A variant of set_image_for_mapping_todo that, given a tag path and no
\* registry path, leaves the tag in the value of the repository path.
set_image_for_mapping_todo_whole(mapping, newimage) ==
  Bind(parse_ref(newimage), LAMBDA r :
    IF Has(mapping, K_registry) /\ Has(mapping, K_tag)
    THEN << [path |-> mapping.m[K_registry].s, value |-> r.reg],
            [path |-> mapping.m[K_repository].s, value |-> r.im],
            [path |-> mapping.m[K_tag].s, value |-> r.tag] >>
    ELSE IF Has(mapping, K_registry)
         THEN << [path |-> mapping.m[K_registry].s, value |-> r.reg],
                 [path |-> mapping.m[K_repository].s, value |-> r.im \o <<":">> \o r.tag] >>
         ELSE IF Has(mapping, K_tag)
              THEN << [path |-> mapping.m[K_repository].s, value |-> newimage],
                      [path |-> mapping.m[K_tag].s, value |-> r.tag] >>
              ELSE << [path |-> mapping.m[K_repository].s, value |-> newimage] >>)

\* The (path, value) pairs set_image_for_mapping sets, in order.
set_image_for_mapping_todo(mapping, newimage) ==
  Bind(parse_ref(newimage), LAMBDA r :
    IF Has(mapping, K_registry) /\ Has(mapping, K_tag)
    THEN << [path |-> mapping.m[K_registry].s, value |-> r.reg],
            [path |-> mapping.m[K_repository].s, value |-> r.im],
            [path |-> mapping.m[K_tag].s, value |-> r.tag] >>
    ELSE IF Has(mapping, K_registry)
         THEN << [path |-> mapping.m[K_registry].s, value |-> r.reg],
                 [path |-> mapping.m[K_repository].s, value |-> r.im \o <<":">> \o r.tag] >>
         ELSE IF Has(mapping, K_tag)
              THEN << [path |-> mapping.m[K_repository].s, value |-> r.im],
                      [path |-> mapping.m[K_tag].s, value |-> r.tag] >>
              ELSE << [path |-> mapping.m[K_repository].s, value |-> newimage] >>)

set_image_for_mapping(values, mapping, newimage) ==
  set_paths(values, set_image_for_mapping_todo(mapping, newimage), <<>>)

\* set_fluxhelmrelease_container: the outcome, the manifest afterwards and the
\* set_path calls made.  name is container['name'].
with_values(manifest, values) == Assign(manifest, <<K_spec, K_values>>, values)

set_fluxhelmrelease_container(manifest, name, newimage) ==
  Bind(manifest.m[K_spec].m[K_values], LAMBDA values :
    Bind(container_mappings_from_annotations(manifest), LAMBDA cm :
      IF name = FHR_CONTAINER /\ Has(values, K_image)
      THEN [exc |-> "none", manifest |-> with_values(manifest, set_image(values, newimage)),
            calls |-> <<>>]
      ELSE IF Has(cm, name) /\ Has(cm.m[name], K_repository)
           THEN Bind(set_image_for_mapping(values, cm.m[name], newimage), LAMBDA r :
                  [exc |-> r.exc, manifest |-> with_values(manifest, r.values), calls |-> r.calls])
           ELSE IF Has(values, name) /\ IsMapping(values.m[name]) /\ Has(values.m[name], K_image)
                THEN [exc |-> "none",
                      manifest |-> with_values(manifest,
                                     Put(values, name, set_image(values.m[name], newimage))),
                      calls |-> <<>>]
                ELSE [exc |-> "NotFound", manifest |-> manifest, calls |-> <<>>]))

\* container['image'] = image on the c-th container of containers +
\* initContainers, which is the mapping held by the manifest itself.
set_podspec_container(manifest, c, image) ==
  LET keys == podspec_keys(manifest)
      spec == Walk(manifest, keys).val
      n == Len(get_list(spec, K_containers))
      k == IF c <= n THEN K_containers ELSE K_initContainers
      i == IF c <= n THEN c ELSE c - n
      l == spec.m[k].l
  IN Assign(manifest, keys \o <<k>>, List([l EXCEPT ![i] = Put(l[i], K_image, Str(image))]))

\* c is the index find_container answered
set_container_image(manifest, c, image) ==
  IF IsHelm(manifest)
  THEN set_fluxhelmrelease_container(
         manifest, fluxhelmrelease_containers(manifest).val[c].m[K_name].s, image)
  ELSE [exc |-> "none", manifest |-> set_podspec_container(manifest, c, image), calls |-> <<>>]

(***************************************************************************)
(* The two mutators, one document at a time.                               *)
(***************************************************************************)
\* for m in manifests(doc), from the i-th manifest on: the first manifest
\* find_container answers a container for gets the image and ends the loop.
RECURSIVE update_image_manifests(_, _, _)
update_image_manifests(spec, ms, i) ==
  IF i > Len(ms)
  THEN [exc |-> "none", found |-> FALSE, i |-> 0, manifest |-> None, calls |-> <<>>]
  ELSE Bind(find_container(spec, ms[i]), LAMBDA c :
         IF c.exc # "none"
         THEN [exc |-> c.exc, found |-> FALSE, i |-> i, manifest |-> ms[i], calls |-> <<>>]
         ELSE IF c.c # 0
              THEN Bind(set_container_image(ms[i], c.c, spec.image), LAMBDA w :
                     [exc |-> w.exc, found |-> w.exc = "none", i |-> i,
                      manifest |-> w.manifest, calls |-> w.calls])
              ELSE update_image_manifests(spec, ms, i + 1))

\* The document with its i-th manifest replaced: the manifests are the
\* document itself or the items it holds, mutated in place.
with_manifest(doc, list, ms, i, manifest) ==
  IF list THEN Put(doc, K_items, List([ms EXCEPT ![i] = manifest])) ELSE manifest

\* The body of update_image's loop for a document while found is False.
update_image_doc(spec, doc) ==
  LET g == manifests(doc)
  IN IF g.exc # "none" THEN [exc |-> g.exc, found |-> FALSE, doc |-> doc, calls |-> <<>>]
     ELSE Bind(update_image_manifests(spec, g.ms, 1), LAMBDA r :
            [exc |-> r.exc, found |-> r.found, calls |-> r.calls,
             doc |-> IF r.found THEN with_manifest(doc, g.list, g.ms, r.i, r.manifest) ELSE doc])

\* ensure(m, 'metadata', 'annotations'): the annotations, {} when there are none
ensure(m) == get_default(m.m[K_metadata], K_annotations, Map(EmptyMap))

\* for k, v in spec.notes: '' deletes the key, a KeyError of del is passed
RECURSIVE apply_notes(_, _)
apply_notes(notes, pairs) ==
  IF pairs = <<>> THEN notes
  ELSE apply_notes(IF pairs[1][2] = <<>> THEN Del(notes, pairs[1][1])
                   ELSE Put(notes, pairs[1][1], Str(pairs[1][2])),
                   Tail(pairs))

\* A variant of annotate_manifest that keeps the annotations mapping when no
\* annotation is left in it.
annotate_manifest_keeps_empty(spec, m) ==
  Put(m, K_metadata, Put(m.m[K_metadata], K_annotations, apply_notes(ensure(m), spec.notes)))

\* The matched manifest after the notes: no annotations key when none is left.
annotate_manifest(spec, m) ==
  LET notes == apply_notes(ensure(m), spec.notes)
  IN IF DOMAIN notes.m = {}
     THEN Put(m, K_metadata, Del(m.m[K_metadata], K_annotations))
     ELSE Put(m, K_metadata, Put(m.m[K_metadata], K_annotations, notes))

\* The body of update_annotations' loop for a document while found is False.
update_annotations_doc(spec, doc) ==
  LET g == manifests(doc)
      hits == IF g.exc = "none"
              THEN {i \in DOMAIN g.ms : match_manifest(spec, g.ms[i])}
              ELSE {}
  IN IF g.exc # "none" THEN [exc |-> g.exc, found |-> FALSE, doc |-> doc]
     ELSE IF hits = {} THEN [exc |-> "none", found |-> FALSE, doc |-> doc]
     ELSE LET i == CHOOSE i \in hits : \A j \in hits : i <= j
          IN [exc |-> "none", found |-> TRUE,
              doc |-> with_manifest(doc, g.list, g.ms, i, annotate_manifest(spec, g.ms[i]))]

(***************************************************************************)
(* The run: the writer pulls the documents out of the generator one by one *)
(* and writes each as soon as it is yielded.  pc is "run" while the        *)
(* generator is alive, "done" after a normal end and the name of the       *)
(* exception after a raise; out is what the writer has been handed.        *)
(***************************************************************************)
NoRef == [reg |-> <<>>, im |-> <<>>, tag |-> <<>>]

\* update_image: one pass of the loop, up to the yield (or the raise)
UpdateImage ==
  /\ pc = "run" /\ args.op = "image" /\ cur <= Len(docs)
  /\ \E r \in {IF found THEN [exc |-> "none", found |-> TRUE, doc |-> docs[cur], calls |-> <<>>]
                ELSE update_image_doc(args, docs[cur])} :
        /\ set_path_calls' = set_path_calls \o r.calls
        /\ IF r.exc # "none"
           THEN pc' = r.exc /\ UNCHANGED <<cur, found, out>>
           ELSE /\ out' = Append(out, r.doc)
                /\ cur' = cur + 1
                /\ found' = r.found
                /\ pc' = pc
  /\ UNCHANGED <<args, docs, ref, formatted>>

\* update_annotations: one pass of the loop, up to the yield (or the raise)
UpdateAnnotations ==
  /\ pc = "run" /\ args.op = "annotate" /\ cur <= Len(docs)
  /\ \E r \in {IF found THEN [exc |-> "none", found |-> TRUE, doc |-> docs[cur]]
                ELSE update_annotations_doc(args, docs[cur])} :
        IF r.exc # "none"
        THEN pc' = r.exc /\ UNCHANGED <<cur, found, out>>
        ELSE /\ out' = Append(out, r.doc)
             /\ cur' = cur + 1
             /\ found' = r.found
             /\ pc' = pc
  /\ UNCHANGED <<args, docs, set_path_calls, ref, formatted>>

\* The stream is exhausted and a manifest was found: the generator returns.
Return ==
  /\ pc = "run" /\ cur > Len(docs) /\ found
  /\ pc' = "done"
  /\ UNCHANGED <<args, docs, cur, found, out, set_path_calls, ref, formatted>>

\* The stream is exhausted and nothing was found: raise NotFound()
RaiseNotFound ==
  /\ pc = "run" /\ cur > Len(docs) /\ ~found
  /\ pc' = "NotFound"
  /\ UNCHANGED <<args, docs, cur, found, out, set_path_calls, ref, formatted>>

\* parse_ref applied to the new image
ParseRef ==
  /\ pc = "parse"
  /\ ref' = parse_ref(args.image)
  /\ pc' = "format"
  /\ UNCHANGED <<args, docs, cur, found, out, set_path_calls, formatted>>

\* the parsed reference put together again
FormatRef ==
  /\ pc = "format"
  /\ formatted' = compose_image(ref.reg, ref.im, ref.tag)
  /\ pc' = "formatted"
  /\ UNCHANGED <<args, docs, cur, found, out, set_path_calls, ref>>

(***************************************************************************)
(* Inputs: the strings, manifests and documents the runs are started on.   *)
(***************************************************************************)
S_Deployment == <<"D", "e", "p", "l", "o", "y", "m", "e", "n", "t">>
S_deployment == <<"d", "e", "p", "l", "o", "y", "m", "e", "n", "t">>
S_Pod == <<"P", "o", "d">>
S_pod == <<"p", "o", "d">>
S_PodList == <<"P", "o", "d", "L", "i", "s", "t">>
S_other == <<"o", "t", "h", "e", "r">>
S_web == <<"w", "e", "b">>
S_version == <<"v", "e", "r", "s", "i", "o", "n">>
S_foo == <<"f", "o", "o">>
S_bar20 == <<"b", "a", "r", ":", "2", ".", "0">>
S_10 == <<"1", ".", "0">>
S_z9 == <<"z", ":", "9">>
S_abz9 == <<"a", ".", "b", "/", "z", ":", "9">>
P_web_image == <<"w", "e", "b", ".", "i", "m", "a", "g", "e">>
P_web_version == <<"w", "e", "b", ".", "v", "e", "r", "s", "i", "o", "n">>
P_values_web_image == <<"v", "a", "l", "u", "e", "s", ".", "w", "e", "b", ".", "i", "m", "a", "g", "e">>
P_values_web_version == <<"v", "a", "l", "u", "e", "s", ".", "w", "e", "b", ".", "v", "e", "r", "s", "i", "o", "n">>
P_web_reg == <<"w", "e", "b", ".", "r", "e", "g">>
S_reg == <<"r", "e", "g">>
S_rio == <<"r", ".", "i", "o">>
S_nope == <<"n", "o", "p", "e">>
S_img == <<"i", "m", "g">>
S_ns == <<"n", "s">>
S_myrepo == <<"m", "y", "-", "r", "e", "p", "o">>
S_v1 == <<"v", "1">>
S_lh5000 == <<"l", "o", "c", "a", "l", "h", "o", "s", "t", ":", "5", "0", "0", "0">>
S_rec5000 == <<"r", "e", "g", "i", "s", "t", "r", "y", ".", "e", "x", "a", "m", "p", "l", "e", ".", "c", "o", "m", ":", "5", "0", "0", "0">>
S_r5 == <<"r", ":", "5">>
S_ab == <<"a", ".", "b">>

\* The mapping holding the given (key, value) pairs.
MapOf(pairs) ==
  Map([k \in {p[1] : p \in pairs} |-> (CHOOSE p \in pairs : p[1] = k)[2]])

\* metadata: ns and ann are sets of at most one value (the key is absent when
\* the set is empty)
Meta(ns, name, ann) ==
  MapOf({<<K_name, Str(name)>>}
        \cup {<<K_namespace, Str(x)>> : x \in ns}
        \cup {<<K_annotations, x>> : x \in ann})

Container(name, image) == MapOf({<<K_name, Str(name)>>, <<K_image, Str(image)>>})
PodSpec(cs, ics) ==
  MapOf({<<K_containers, List(cs)>>} \cup {<<K_initContainers, List(x)>> : x \in ics})
Template(podspecnode) == MapOf({<<K_template, MapOf({<<K_spec, podspecnode>>})>>})
Manifest(kind, meta, spec) ==
  MapOf({<<K_kind, Str(kind)>>, <<K_metadata, meta>>} \cup {<<K_spec, x>> : x \in spec})
Deployment(meta, podspecnode) == Manifest(S_Deployment, meta, {Template(podspecnode)})
CronJob(meta, podspecnode) ==
  Manifest(S_CronJob, meta, {MapOf({<<K_jobTemplate, MapOf({<<K_spec, Template(podspecnode)>>})>>})})
Pod(name) == Manifest(S_Pod, Meta({}, name, {}), {PodSpec(<<Container(<<"c">>, <<"x">>)>>, {})})
ListOf(kind, items) == MapOf({<<K_kind, Str(kind)>>, <<K_items, List(items)>>})
Release(kind, ann, values) ==
  Manifest(kind, Meta({}, <<"a">>, ann), {MapOf({<<K_values, x>> : x \in values})})

JustC == PodSpec(<<Container(<<"c">>, <<"x">>)>>, {})
JustD == PodSpec(<<Container(<<"d">>, <<"x">>)>>, {})
DepA == Deployment(Meta({}, <<"a">>, {}), JustC)
DepAInit == Deployment(Meta({S_default}, <<"a">>, {}),
                       PodSpec(<<Container(<<"d">>, <<"x">>)>>, {<<Container(<<"c">>, <<"x">>)>>}))
DepANoC == Deployment(Meta({}, <<"a">>, {}), JustD)
DepB == Deployment(Meta({}, <<"b">>, {}), JustC)
DepAOther == Deployment(Meta({S_other}, <<"a">>, {}), JustC)
NoKind == MapOf({<<K_metadata, Meta({}, <<"a">>, {})>>, <<K_spec, Template(JustC)>>})
NoMetadata == MapOf({<<K_kind, Str(S_Deployment)>>, <<K_spec, Template(JustC)>>})
NoSpec == Manifest(S_Deployment, Meta({}, <<"a">>, {}), {})
NoTemplate == Manifest(S_Deployment, Meta({}, <<"a">>, {}), {Map(EmptyMap)})
CronA == CronJob(Meta({}, <<"a">>, {}), JustC)
CronNoJobTemplate == Manifest(S_CronJob, Meta({}, <<"a">>, {}), {Template(JustC)})
NoItems == MapOf({<<K_kind, Str(S_List)>>})
ReleaseNoValues == Release(S_HelmRelease, {}, {})
ReleaseImage == Release(S_HelmRelease, {}, {MapOf({<<K_image, Str(<<"x">>)>>})})

\* The documents update-image is run on.
ImageDocs ==
  { DepA, DepAInit, DepANoC, DepB, DepAOther, NoKind, NoMetadata, NoSpec, NoTemplate,
    CronA, CronNoJobTemplate, Pod(<<"a">>), NoItems, ReleaseNoValues, ReleaseImage,
    ListOf(S_List, <<DepB, DepA, DepA>>),
    ListOf(S_List, <<DepANoC, DepA>>),
    ListOf(S_PodList, <<Pod(<<"b">>), Pod(<<"a">>), Pod(<<"z">>)>>) }

Noted(name, ann) == Deployment(Meta({}, name, ann), JustC)
AnnK == MapOf({<<<<"k">>, Str(<<"v">>)>>})
AnnKJ == MapOf({<<<<"k">>, Str(<<"v">>)>>, <<<<"j">>, Str(<<"v">>)>>})

\* The documents update-annotations is run on.
NoteDocs ==
  { Noted(<<"a">>, {}), Noted(<<"a">>, {AnnK}), Noted(<<"a">>, {AnnKJ}),
    Noted(<<"a">>, {Map(EmptyMap)}), Noted(<<"b">>, {AnnK}), NoKind,
    ListOf(S_List, <<Noted(<<"b">>, {AnnK}), Noted(<<"a">>, {AnnK}), Noted(<<"a">>, {AnnKJ})>>) }

\* The non-empty sequences of at most n elements of S
SeqsUpTo(S, n) == UNION {[1..k -> S] : k \in 1..n}

\* The (key, value) pairs of the annotate command line: '' deletes.
NotePairs == {<<k, v>> : k \in {<<"k">>, <<"j">>}, v \in {<<>>, <<"w">>}}

Args(op, kind, container, image, notes) ==
  [op |-> op, namespace |-> S_default, kind |-> kind, name |-> <<"a">>,
   container |-> container, image |-> image, notes |-> notes]

ImageArgs ==
  {Args("image", k, <<"c">>, <<"y">>, <<>>) : k \in {S_deployment, S_CronJob, S_pod, S_HelmRelease}}
NoteArgs ==
  {Args("annotate", S_deployment, <<>>, <<>>, n) : n \in SeqsUpTo(NotePairs, MaxNotes)}

(***************************************************************************)
(* Spec: the two commands over streams of documents.                       *)
(***************************************************************************)
Init ==
  /\ \/ args \in ImageArgs /\ docs \in SeqsUpTo(ImageDocs, MaxDocs)
     \/ args \in NoteArgs /\ docs \in SeqsUpTo(NoteDocs, MaxDocs)
  /\ cur = 1
  /\ found = FALSE
  /\ out = <<>>
  /\ pc = "run"
  /\ set_path_calls = <<>>
  /\ ref = NoRef
  /\ formatted = <<>>

Next == UpdateImage \/ UpdateAnnotations \/ Return \/ RaiseNotFound

Spec == Init /\ [][Next]_vars

(***************************************************************************)
(* SpecRef: parse_ref and the composition, on image references.            *)
(***************************************************************************)
\* registry/path:tag, the registry and the tag left out when ''
Reference(reg, path, tag) ==
  (IF reg = <<>> THEN <<>> ELSE reg \o <<"/">>)
    \o join(path, "/")
    \o (IF tag = <<>> THEN <<>> ELSE <<":">> \o tag)

Registries == {<<>>, S_localhost, S_lh5000, S_ab, S_rec5000, S_r5}
PathNames == {S_img, S_ns, S_myrepo}
Tags == {<<>>, S_v1, S_10}

\* References with at most one registry, a path of non-empty names and at
\* most one tag.
WellFormedImages ==
  {Reference(reg, path, tag) :
     reg \in Registries, path \in SeqsUpTo(PathNames, MaxRepoSegments), tag \in Tags}

\* 'img:' and '/ns/img': an empty tag, an empty registry
IllFormedImages == {S_img \o <<":">>, <<"/">> \o S_ns \o <<"/">> \o S_img}

InitRef ==
  /\ args \in {Args("image", S_HelmRelease, FHR_CONTAINER, i, <<>>) :
                 i \in WellFormedImages \cup IllFormedImages}
  /\ docs = <<>>
  /\ cur = 1
  /\ found = FALSE
  /\ out = <<>>
  /\ pc = "parse"
  /\ set_path_calls = <<>>
  /\ ref = NoRef
  /\ formatted = <<>>

NextRef == ParseRef \/ FormatRef

SpecRef == InitRef /\ [][NextRef]_vars

(***************************************************************************)
(* SpecHelm: update-image on one Helm release.                             *)
(***************************************************************************)
\* What values holds at the top level about the chart's image.
TopChoices ==
  {{}}
  \cup {{<<K_image, Str(<<"x">>)>>} \cup sib :
          sib \in SUBSET {<<K_registry, Str(S_rio)>>, <<K_tag, Str(<<"t">>)>>}}
  \cup {{<<K_image, MapOf(f)>>} :
          f \in { {<<K_repository, Str(S_foo)>>, <<K_tag, Str(S_10)>>},
                  {<<K_registry, Str(S_rio)>>, <<K_repository, Str(S_foo)>>, <<K_tag, Str(S_10)>>},
                  {<<K_tag, Str(S_10)>>} }}

\* What values holds under the key 'web'.
WebChoices ==
  {{}, {<<S_web, Str(<<"s">>)>>}}
  \cup {{<<S_web, MapOf(f)>>} :
          f \in { {<<K_image, Str(<<"x">>)>>},
                  {<<K_image, Str(<<"x">>)>>, <<K_tag, Str(<<"y">>)>>},
                  {<<K_image, Str(<<"x">>)>>, <<K_registry, Str(S_rio)>>},
                  {<<K_image, Str(<<"x">>)>>, <<K_registry, Str(S_rio)>>, <<K_tag, Str(<<"y">>)>>},
                  {<<K_image, Str(<<"x">>)>>, <<S_version, Str(<<"y">>)>>},
                  {<<K_image, Str(S_foo)>>, <<S_version, Str(S_10)>>},
                  {<<K_image, Str(<<"x">>)>>, <<S_version, Str(<<"y">>)>>, <<S_reg, Str(S_rio)>>},
                  {<<K_image, Str(<<"x">>)>>, <<S_version, Map(EmptyMap)>>},
                  {<<S_version, Str(<<"y">>)>>} }}

\* The annotations of the release: the dot paths of the container 'web', or
\* of a container named as the chart's image is.
AnnotationChoices ==
  {{<<REGISTRY_ANNOTATION \o S_web, Str(p)>> : p \in reg}
     \cup {<<REPOSITORY_ANNOTATION \o S_web, Str(p)>> : p \in rep}
     \cup {<<TAG_ANNOTATION \o S_web, Str(p)>> : p \in tag} :
       reg \in {{}, {P_web_reg}},
       rep \in {{}, {P_web_image}, {P_values_web_image}, {S_web}},
       tag \in {{}, {P_web_version}, {P_values_web_version}}}
  \cup {{<<REPOSITORY_ANNOTATION \o FHR_CONTAINER, Str(P_web_image)>>} \cup tag :
          tag \in SUBSET {<<TAG_ANNOTATION \o FHR_CONTAINER, Str(P_web_version)>>}}

Releases ==
  {Release(kind, IF ann = {} THEN {} ELSE {MapOf(ann)}, {MapOf(top \cup web)}) :
     kind \in {S_HelmRelease, S_FluxHelmRelease},
     ann \in AnnotationChoices, top \in TopChoices, web \in WebChoices}

NewImages == {S_z9, S_bar20, S_abz9, <<"z">>}

InitHelm ==
  /\ \E d \in Releases :
       /\ docs = <<d>>
       /\ args \in {Args("image", d.m[K_kind].s, c, i, <<>>) :
                      c \in {FHR_CONTAINER, S_web, S_nope}, i \in NewImages}
  /\ cur = 1
  /\ found = FALSE
  /\ out = <<>>
  /\ pc = "run"
  /\ set_path_calls = <<>>
  /\ ref = NoRef
  /\ formatted = <<>>

NextHelm == UpdateImage \/ Return \/ RaiseNotFound

SpecHelm == InitHelm /\ [][NextHelm]_vars

(***************************************************************************)
(* What the properties below speak about.                                  *)
(***************************************************************************)
\* The manifests a document stands for: its items when its kind ends in
\* 'List', else the document.
ManifestsOf(doc) ==
  IF Has(doc, K_kind) /\ endswith(doc.m[K_kind].s, S_List) /\ Has(doc, K_items)
  THEN doc.m[K_items].l
  ELSE <<doc>>

\* The places <<document, manifest>> of the stream, and their order.
Places == {<<j, i>> : j \in DOMAIN docs, i \in 1..3} \cap
          UNION {{<<j, i>> : i \in DOMAIN ManifestsOf(docs[j])} : j \in DOMAIN docs}
Before(p, q) == p[1] < q[1] \/ (p[1] = q[1] /\ p[2] < q[2])
Matching == {p \in Places : match_manifest(args, ManifestsOf(docs[p[1]])[p[2]])}
IsFirstMatch(p) == p \in Matching /\ \A q \in Matching : ~Before(q, p)

\* The manifest at place p holds a container of the requested name.
HoldsContainer(p) ==
  LET cs == containers(ManifestsOf(docs[p[1]])[p[2]])
  IN cs.exc = "none" /\ \E i \in DOMAIN cs.val : cs.val[i].m[K_name] = Str(args.container)

\* The run has ended, normally or in an exception.
Ended == pc \in {"done", "NotFound", "KeyError", "TypeError"}

\* C1: both commands emit every input document once, in input order, and
\* change at most one manifest, the first one in document order (the items
\* of a List expanded) that matches the selector; every other manifest is
\* emitted as it came in.
C1_OnlyFirstMatchMutated ==
  Ended =>
    /\ Len(out) = Len(docs)
    /\ \A j \in DOMAIN docs :
         /\ Len(ManifestsOf(out[j])) = Len(ManifestsOf(docs[j]))
         /\ \A i \in DOMAIN ManifestsOf(docs[j]) :
              ~IsFirstMatch(<<j, i>>) => ManifestsOf(out[j])[i] = ManifestsOf(docs[j])[i]

\* C2: when no manifest satisfies the selector (and, for update-image, holds
\* the requested container), the run ends in NotFound, nothing is modified,
\* and no document is handed to the writer ahead of the failure.
C2_NotFoundBeforeOutput ==
  (\A p \in Matching : args.op = "image" /\ ~HoldsContainer(p)) =>
    /\ out = <<>>
    /\ pc \in {"run", "NotFound"}

\* The annotations a manifest carries, {} when it has none.
AnnotationsOf(m) ==
  IF Has(m.m[K_metadata], K_annotations) THEN m.m[K_metadata].m[K_annotations].m ELSE EmptyMap

\* What the notes leave of the annotations old: per key, the last pair for
\* the key decides ('' removes it), a key without a pair stays.
NotedKeys(notes) == {notes[i][1] : i \in DOMAIN notes}
LastNote(notes, k) ==
  notes[CHOOSE i \in DOMAIN notes :
          notes[i][1] = k /\ \A j \in DOMAIN notes : notes[j][1] = k => j <= i][2]
ExpectedAnnotations(old, notes) ==
  [k \in {k \in (DOMAIN old) \cup NotedKeys(notes) :
            IF k \in NotedKeys(notes) THEN LastNote(notes, k) # <<>> ELSE TRUE}
     |-> IF k \in NotedKeys(notes) THEN Str(LastNote(notes, k)) ELSE old[k]]

\* The manifest after differs from before in nothing but metadata.annotations.
OnlyAnnotationsDiffer(before, after) ==
  /\ DOMAIN after.m = DOMAIN before.m
  /\ \A k \in DOMAIN before.m \ {K_metadata} : after.m[k] = before.m[k]
  /\ Del(after.m[K_metadata], K_annotations) = Del(before.m[K_metadata], K_annotations)

\* C5: update-annotations leaves the first matching manifest with the
\* annotations the pairs, applied in order, make of the previous ones; an
\* empty result removes the 'annotations' key; nothing else of the manifest
\* changes.
C5_AnnotationsApplied ==
  (args.op = "annotate" /\ found) =>
    \E p \in Matching :
      /\ IsFirstMatch(p)
      /\ p[1] <= Len(out)
      /\ LET before == ManifestsOf(docs[p[1]])[p[2]]
             after == ManifestsOf(out[p[1]])[p[2]]
             expected == ExpectedAnnotations(AnnotationsOf(before), args.notes)
         IN /\ OnlyAnnotationsDiffer(before, after)
            /\ IF DOMAIN expected = {}
               THEN ~Has(after.m[K_metadata], K_annotations)
               ELSE /\ Has(after.m[K_metadata], K_annotations)
                    /\ after.m[K_metadata].m[K_annotations] = Map(expected)

\* C5 witness: the only annotation of the manifest is deleted and the
\* annotations key is gone from the emitted manifest.
C5_Witness ==
  /\ pc = "done"
  /\ args.op = "annotate"
  /\ args.notes = << <<<<"k">>, <<>>>> >>
  /\ docs = <<Noted(<<"a">>, {AnnK})>>
  /\ out = <<Noted(<<"a">>, {})>>

\* C6: update-image never ends in an error other than NotFound: a document
\* or manifest lacking kind, metadata, spec, spec.template or spec.values
\* counts as not matching.
C6_OnlyNotFound == args.op = "image" => pc \in {"run", "done", "NotFound"}

\* C7: a well-formed image reference parsed into registry, repository and
\* tag and put together again is the reference itself.
C7_RoundTrip ==
  (pc = "formatted" /\ args.image \in WellFormedImages) => formatted = args.image

\* C7 witness: a reference with a registry with a port, a two-segment path
\* and a tag has been parsed into its three parts and put together again.
C7_Witness ==
  /\ pc = "formatted"
  /\ args.image = Reference(S_rec5000, <<S_ns, S_img>>, S_v1)
  /\ ref = [reg |-> S_rec5000, im |-> S_ns \o <<"/">> \o S_img, tag |-> S_v1]

(***************************************************************************)
(* Properties of update-image on a Helm release (SpecHelm: one document).  *)
(***************************************************************************)
ValuesOf(manifest) == manifest.m[K_spec].m[K_values]

\* The containers of the manifest hold one named name with the image.
Resolves(manifest, name, image) ==
  LET cs == fluxhelmrelease_containers(manifest)
  IN cs.exc = "none" /\ \E i \in DOMAIN cs.val : cs.val[i] = Entry(name, Str(image))

\* The mapping v (which holds 'image') after the new image has been written
\* by the sibling keys of the target: values.image itself when it is a
\* mapping with 'repository', else v.
FoldedInto(target, field, newimage) ==
  LET r == parse_ref(newimage)
  IN IF Has(target, K_registry) /\ Has(target, K_tag)
     THEN [k \in DOMAIN target.m |->
             IF k = K_registry THEN Str(r.reg)
             ELSE IF k = field THEN Str(r.im)
             ELSE IF k = K_tag THEN Str(r.tag) ELSE target.m[k]]
     ELSE IF Has(target, K_registry)
          THEN [k \in DOMAIN target.m |->
                  IF k = K_registry THEN Str(r.reg)
                  ELSE IF k = field THEN Str(compose_image(<<>>, r.im, r.tag))
                  ELSE target.m[k]]
          ELSE IF Has(target, K_tag)
               THEN [k \in DOMAIN target.m |->
                       IF k = field THEN Str(compose_image(r.reg, r.im, <<>>))
                       ELSE IF k = K_tag THEN Str(r.tag) ELSE target.m[k]]
               ELSE [k \in DOMAIN target.m |->
                       IF k = field THEN Str(newimage) ELSE target.m[k]]
ImageWritten(v, newimage) ==
  IF IsMapping(v.m[K_image]) /\ Has(v.m[K_image], K_repository)
  THEN Put(v, K_image, Map(FoldedInto(v.m[K_image], K_repository, newimage)))
  ELSE Map(FoldedInto(v, K_image, newimage))

\* The container asked for is the chart's image; it is a nested mapping's
\* container, which no annotation mapping resolves.
OfChartImage == args.container = FHR_CONTAINER /\ Has(ValuesOf(docs[1]), K_image)
OfNestedMapping ==
  LET values == ValuesOf(docs[1])
      cm == container_mappings_from_annotations(docs[1])
  IN /\ ~OfChartImage
     /\ Has(values, args.container)
     /\ IsMapping(values.m[args.container])
     /\ Has(values.m[args.container], K_image)
     /\ \/ ~Has(cm, args.container)
        \/ get_image_for_mapping(values, cm.m[args.container]) = Ok(None)

\* C3: update-image on the container 'chart-image' of a release whose
\* values hold 'image', and likewise on a nested mapping's container, writes
\* the parsed image into the target mapping by the sibling keys registry and
\* tag, and changes no other key of the manifest.
C3_ImageFolded ==
  LET values == ValuesOf(docs[1])
  IN /\ (Ended /\ OfChartImage) =>
          pc = "done" /\ out = <<with_values(docs[1], ImageWritten(values, args.image))>>
     /\ (Ended /\ OfNestedMapping) =>
          /\ pc = "done"
          /\ out = <<with_values(docs[1],
                       Put(values, args.container,
                           ImageWritten(values.m[args.container], args.image)))>>

\* A release with the annotations repository.../web and tag.../web of the
\* two paths and nothing else, whose values.web is {image: x, version: y},
\* x and y strings that are not ''.
WebAnnotated(repositoryPath, tagPath) ==
  LET values == ValuesOf(docs[1])
  IN /\ AnnotationsOf(docs[1]) =
          (REPOSITORY_ANNOTATION \o S_web :> Str(repositoryPath))
            @@ (TAG_ANNOTATION \o S_web :> Str(tagPath))
     /\ Has(values, S_web)
     /\ IsMapping(values.m[S_web])
     /\ DOMAIN values.m[S_web].m = {K_image, S_version}
     /\ \A k \in {K_image, S_version} :
          IsStr(values.m[S_web].m[k]) /\ values.m[S_web].m[k].s # <<>>

\* The release resolves to a container web of image x:y, and an ended
\* update-image of web with 'z:9' has left image 'z' and version '9'.
WebResolvedAndWritten ==
  LET web == ValuesOf(docs[1]).m[S_web].m
  IN /\ Resolves(docs[1], S_web, web[K_image].s \o <<":">> \o web[S_version].s)
     /\ (Ended /\ args.container = S_web /\ args.image = S_z9) =>
          /\ pc = "done"
          /\ ValuesOf(out[1]).m[S_web].m[K_image] = Str(<<"z">>)
          /\ ValuesOf(out[1]).m[S_web].m[S_version] = Str(<<"9">>)

\* C4 as stated: with the annotation paths 'values.web.image' and
\* 'values.web.version' the container web resolves to 'x:y' and update-image
\* with 'z:9' sets values.web.image to 'z' and values.web.version to '9'.
C4_PathsFromValuesKey ==
  WebAnnotated(P_values_web_image, P_values_web_version) => WebResolvedAndWritten

\* C4 amended: the same with the annotation paths 'web.image' and
\* 'web.version', which are relative to spec.values.
C4_PathsRelativeToValues ==
  WebAnnotated(P_web_image, P_web_version) => WebResolvedAndWritten

\* C4 witness: update-image of web with 'z:9' has ended on a release with the
\* relative paths, values.web = {image: x, version: y}, and has written both.
C4_Witness ==
  /\ pc = "done"
  /\ WebAnnotated(P_web_image, P_web_version)
  /\ args.container = S_web
  /\ args.image = S_z9
  /\ ValuesOf(docs[1]).m[S_web] = MapOf({<<K_image, Str(<<"x">>)>>, <<S_version, Str(<<"y">>)>>})
  /\ ValuesOf(out[1]).m[S_web] = MapOf({<<K_image, Str(<<"z">>)>>, <<S_version, Str(<<"9">>)>>})

\* C8: when update-image of container C with the well-formed image I has
\* completed on a release, the mutated manifest resolves to a container C of
\* image I.
C8_WriteInvertsResolve ==
  (pc = "done" /\ args.image \in NewImages) => Resolves(out[1], args.container, args.image)

\* The (path, value) writes the folding rules make of the new image for an
\* annotation mapping.
FoldedPaths(mapping, newimage) ==
  LET r == parse_ref(newimage)
      registry == mapping.m[K_registry].s
      repository == mapping.m[K_repository].s
      tag == mapping.m[K_tag].s
  IN IF Has(mapping, K_registry) /\ Has(mapping, K_tag)
     THEN << <<registry, r.reg>>, <<repository, r.im>>, <<tag, r.tag>> >>
     ELSE IF Has(mapping, K_registry)
          THEN << <<registry, r.reg>>, <<repository, compose_image(<<>>, r.im, r.tag)>> >>
          ELSE IF Has(mapping, K_tag)
               THEN << <<repository, compose_image(r.reg, r.im, <<>>)>>, <<tag, r.tag>> >>
               ELSE << <<repository, newimage>> >>

\* C9: a completed write-back through an annotation mapping has set the
\* paths of the mapping to the values the folding rules of a direct image
\* mapping give; no part of the new image is lost.
C9_MappingFolded ==
  (pc = "done" /\ set_path_calls # <<>>) =>
    [i \in DOMAIN set_path_calls |-> <<set_path_calls[i].path, set_path_calls[i].value>>]
      = FoldedPaths(container_mappings_from_annotations(docs[1]).m[args.container], args.image)

\* The setter has nothing to write at the path: a key on the way or the last
\* key is missing, or what is there is not a string.
NothingToSet(tree, path) ==
  LET r == Walk(tree, split(path, "."))
  IN r.exc # "none" \/ ~IsStr(r.val)

\* C10: a call of the setter never raises; it answers false and leaves the
\* tree alone when there is nothing to write at the path, else it overwrites
\* the last key alone and answers true.  A write-back all of whose sets
\* answered false ends in no error and goes on to the nested mapping of the
\* container's name.
C10_SetNeverRaises ==
  /\ \A i \in DOMAIN set_path_calls :
       LET c == set_path_calls[i]
       IN /\ c.exc = "none"
          /\ IF NothingToSet(c.d, c.path)
             THEN ~c.ret /\ c.after = c.d
             ELSE c.ret /\ c.after = Assign(c.d, split(c.path, "."), Str(c.value))
  /\ LET values == ValuesOf(docs[1])
     IN (/\ Ended
         /\ set_path_calls # <<>>
         /\ \A i \in DOMAIN set_path_calls : ~set_path_calls[i].ret
         /\ Has(values, args.container)
         /\ IsMapping(values.m[args.container])
         /\ Has(values.m[args.container], K_image)) =>
          /\ pc = "done"
          /\ out = <<with_values(docs[1],
                       Put(values, args.container,
                           set_image(values.m[args.container], args.image)))>>

====
